---- MODULE Spec2Model ----
(***************************************************************************)
(* Model of playwright-auth-screenshot: the selector resolver              *)
(* (resolveSelectors), the login flow (authenticate) and the success       *)
(* detector (waitForLoginSuccess) of auth.ts, over the preset registry     *)
(* PRESETS of presets.ts; the screenshot request (screenshot, index.ts)    *)
(* that runs the login flow before it captures; and the command line       *)
(* (parseArgs, main, cli.ts) that builds the request.                      *)
(*                                                                         *)
(* JavaScript values are tagged records: undefined, strings, booleans,     *)
(* numbers and objects, so that || (truthiness) and ?? (presence) differ   *)
(* as they do in the source.                                               *)
(***************************************************************************)
EXTENDS Naturals, Sequences, FiniteSets, TLC

VARIABLES
    auth,       \* the AuthConfig passed to authenticate (never assigned by the code)
    sel,        \* const sel = resolveSelectors(auth); Undefined before line 42 ran
    pc,         \* position of main / screenshot / authenticate / waitForLoginSuccess
    awaiting,   \* index in calls of the call the function is suspended on (0: running)
    calls,      \* the driver calls issued so far, in order, each with its outcome
    page,       \* the page: current URL and the state of the password field
    error,      \* the error in flight: thrown, caught or rejected with (Undefined while none)
    predicateEvals, \* how often the waitForURL predicate (lines 89-97) was evaluated
    argv,       \* process.argv.slice(2)
    config,     \* the content of the file --config names (Undefined: unreadable)
    env,        \* process.env (Undefined: not started from the command line)
    options,    \* the ScreenshotOptions passed to screenshot (Undefined: no request)
    authenticated,  \* let authenticated of screenshot
    invocations,    \* how often screenshot has called authenticate
    browser,    \* the browser of the request: "none", "open" or "closed"
    buffer,     \* the URL of the page page.screenshot captured (Undefined: none)
    finalUrl,   \* const finalUrl of screenshot
    files,      \* the files written by writeFileSync: <<path, content>>
    result,     \* the ScreenshotResult returned (Undefined while none)
    registry,   \* the object PRESETS refers to: one per process, read by every run
    other       \* the locals of a second, concurrent run of authenticate while
                \* the first one runs (Undefined: no second run)

\* the state of one run of authenticate against the driver
flow == <<auth, sel, pc, awaiting, calls, page, error, predicateEvals>>

\* the inputs of main
cli == <<argv, config, env>>

\* the locals and effects of screenshot, and the browser it drives
request == <<options, authenticated, invocations, browser, buffer, finalUrl, files, result>>

\* what is not local to one run
shared == <<registry, other>>

vars == <<flow, cli, request, shared>>

---------------------------------------------------------------------------
(* JavaScript values *)

Undefined == [t |-> "undefined"]

Str(s) == [t |-> "string", v |-> s]

Bool(b) == [t |-> "boolean", v |-> b]

Obj(r) == [t |-> "object", v |-> r]

Num(n) == [t |-> "number", v |-> n, nan |-> FALSE]

NaN == [t |-> "number", v |-> 0, nan |-> TRUE]

\* ToBoolean: undefined, "", false, 0 and NaN are falsy; objects, other strings
\* and other numbers truthy
Truthy(x) ==
    CASE x.t = "undefined" -> FALSE
      [] x.t = "string"    -> x.v # ""
      [] x.t = "boolean"   -> x.v
      [] x.t = "number"    -> ~x.nan /\ x.v # 0
      [] x.t = "object"    -> TRUE

\* a || b
Or(a, b) == IF Truthy(a) THEN a ELSE b

\* ?? taken for ||: the right operand also replaces false
NullishByTruthiness(a, b) == IF Truthy(a) THEN a ELSE b

\* a ?? b
Nullish(a, b) == IF a.t = "undefined" THEN b ELSE a

\* o.f on a plain record of properties: a property the object lacks reads undefined
Get(o, f) == IF o.t = "object" /\ f \in DOMAIN o.v THEN o.v[f] ELSE Undefined

---------------------------------------------------------------------------
(* presets.ts *)

supabase ==
    [ loginPath         |-> Str("/auth/login"),
      emailSelector     |-> Str("input[type=\"email\"], input#email"),
      passwordSelector  |-> Str("input[type=\"password\"], input#password"),
      submitSelector    |-> Str("button[type=\"submit\"]"),
      successUrlPattern |-> Str("/"),
      multiStep         |-> Bool(FALSE) ]

clerk ==
    [ loginPath         |-> Str("/sign-in"),
      emailSelector     |-> Str("input[name=\"identifier\"], input#identifier-field"),
      passwordSelector  |-> Str("input[name=\"password\"], input#password-field"),
      submitSelector    |-> Str("button[type=\"submit\"], button.cl-formButtonPrimary"),
      successUrlPattern |-> Str("/"),
      multiStep         |-> Bool(TRUE),
      continueSelector  |-> Str("button[type=\"submit\"]") ]

salesforce ==
    [ loginPath         |-> Str("/login"),
      emailSelector     |-> Str("input#username"),
      passwordSelector  |-> Str("input#password"),
      submitSelector    |-> Str("input#Login"),
      successUrlPattern |-> Str("/home"),
      multiStep         |-> Bool(FALSE) ]

generic ==
    [ loginPath         |-> Str("/login"),
      emailSelector     |-> Str("input[type=\"email\"], input[name=\"email\"]"),
      passwordSelector  |-> Str("input[type=\"password\"], input[name=\"password\"]"),
      submitSelector    |-> Str("button[type=\"submit\"]"),
      successUrlPattern |-> Str("/"),
      multiStep         |-> Bool(FALSE) ]

\* The own properties of the object literal PRESETS, the registry as the
\* module creates it
PRESETS ==
    [ supabase   |-> Obj(supabase),
      clerk      |-> Obj(clerk),
      salesforce |-> Obj(salesforce),
      generic    |-> Obj(generic) ]

\* PRESETS is an object literal, so a property it does not own is looked up on
\* Object.prototype: these members are functions, truthy objects that carry
\* none of the AuthPreset fields.
ObjectPrototype ==
    [ constructor    |-> Obj([name |-> Str("Object")]),
      toString       |-> Obj([name |-> Str("toString")]),
      valueOf        |-> Obj([name |-> Str("valueOf")]),
      hasOwnProperty |-> Obj([name |-> Str("hasOwnProperty")]) ]

\* PRESETS[key]: own property, else inherited property, else undefined
PresetsGet(key) ==
    IF key.v \in DOMAIN registry THEN registry[key.v]
    ELSE IF key.v \in DOMAIN ObjectPrototype THEN ObjectPrototype[key.v]
    ELSE Undefined

---------------------------------------------------------------------------
(* auth.ts: resolveSelectors *)

\* LookupPreset ignoring the name
LookupPresetGenericOnly(a) == registry.generic

\* const preset = PRESETS[auth.preset || 'generic'] || PRESETS.generic
LookupPreset(a) == Or(PresetsGet(Or(a.preset, Str("generic"))), registry.generic)

\* resolveSelectors with the preset default winning over the override
resolveSelectorsPresetFirst(a) ==
    LET preset == LookupPreset(a) IN
    [ emailSelector     |-> Or(Get(preset, "emailSelector"), a.emailSelector),
      passwordSelector  |-> Or(Get(preset, "passwordSelector"), a.passwordSelector),
      submitSelector    |-> Or(Get(preset, "submitSelector"), a.submitSelector),
      successUrlPattern |-> Or(Get(preset, "successUrlPattern"), a.successUrlPattern),
      successSelector   |-> a.successSelector,
      multiStep         |-> Nullish(a.multiStep, Get(preset, "multiStep")),
      continueSelector  |-> Or(Get(preset, "continueSelector"), a.continueSelector) ]

resolveSelectors(a) ==
    LET preset == LookupPreset(a) IN
    [ emailSelector     |-> Or(a.emailSelector, Get(preset, "emailSelector")),
      passwordSelector  |-> Or(a.passwordSelector, Get(preset, "passwordSelector")),
      submitSelector    |-> Or(a.submitSelector, Get(preset, "submitSelector")),
      successUrlPattern |-> Or(a.successUrlPattern, Get(preset, "successUrlPattern")),
      successSelector   |-> a.successSelector,
      multiStep         |-> Nullish(a.multiStep, Get(preset, "multiStep")),
      continueSelector  |-> Or(a.continueSelector, Get(preset, "continueSelector")) ]

---------------------------------------------------------------------------
(* URLs and paths.  Strings are atomic values here, so the text of the URLs  *)
(* and patterns the model uses is spelled out once, character by character.  *)

\* new URL(u).pathname for the URLs the model uses
Pathname(u) ==
    CASE u = "about:blank"                -> "blank"
      [] u = "https://app.test/login"     -> "/login"
      [] u = "https://app.test/signin"    -> "/signin"
      [] u = "https://app.test/dashboard" -> "/dashboard"
      [] u = "https://app.test/org/home"  -> "/org/home"
      [] u = "https://app.test/"                       -> "/"
      [] u = "https://app.test/auth/login"             -> "/auth/login"
      [] u = "https://app.test/sign-in"                -> "/sign-in"
      [] u = "https://app.test/home-office/dashboard"  -> "/home-office/dashboard"
      [] u = "https://app.test/?from=/login"           -> "/"
      [] u = "https://home.test/dashboard?next=/home"  -> "/dashboard"
      [] u = "https://app.test/target"                 -> "/target"

\* the characters of a path or pattern
Chars(s) ==
    CASE s = "blank"      -> <<"b", "l", "a", "n", "k">>
      [] s = "/"          -> <<"/">>
      [] s = "/home"      -> <<"/", "h", "o", "m", "e">>
      [] s = "/login"     -> <<"/", "l", "o", "g", "i", "n">>
      [] s = "/sign-in"   -> <<"/", "s", "i", "g", "n", "-", "i", "n">>
      [] s = "/auth/"     -> <<"/", "a", "u", "t", "h", "/">>
      [] s = "/signin"    -> <<"/", "s", "i", "g", "n", "i", "n">>
      [] s = "/dashboard" -> <<"/", "d", "a", "s", "h", "b", "o", "a", "r", "d">>
      [] s = "/org/home"  -> <<"/", "o", "r", "g", "/", "h", "o", "m", "e">>
      [] s = "/org"       -> <<"/", "o", "r", "g">>
      [] s = "/target"    -> <<"/", "t", "a", "r", "g", "e", "t">>
      [] s = "/auth/login" -> <<"/", "a", "u", "t", "h", "/", "l", "o", "g", "i", "n">>
      [] s = "/home-office/dashboard" ->
            <<"/", "h", "o", "m", "e", "-", "o", "f", "f", "i", "c", "e",
              "/", "d", "a", "s", "h", "b", "o", "a", "r", "d">>

\* String.prototype.includes
Includes(s, sub) ==
    LET a == Chars(s)
        b == Chars(sub)
    IN  \E i \in 0..Len(a) :
            /\ i + Len(b) <= Len(a)
            /\ \A j \in 1..Len(b) : a[i + j] = b[j]

---------------------------------------------------------------------------
(* auth.ts: waitForLoginSuccess *)

\* UrlPredicate comparing the whole path with the pattern
UrlPredicateExact(s, url) ==
    LET pathname == Pathname(url) IN
    IF s.successUrlPattern.v = "/"
    THEN /\ ~Includes(pathname, "/login")
         /\ ~Includes(pathname, "/sign-in")
         /\ ~Includes(pathname, "/auth/")
    ELSE pathname = s.successUrlPattern.v

\* the predicate handed to page.waitForURL (lines 89-97)
UrlPredicate(s, url) ==
    LET pathname == Pathname(url) IN
    IF s.successUrlPattern.v = "/"
    THEN /\ ~Includes(pathname, "/login")
         /\ ~Includes(pathname, "/sign-in")
         /\ ~Includes(pathname, "/auth/")
    ELSE Includes(pathname, s.successUrlPattern.v)

\* waitForLoginSuccess with the URL pattern tried before the selector
waitForLoginSuccessUrlFirst(s) ==
    IF Truthy(s.successUrlPattern) THEN "waitURL"
    ELSE IF Truthy(s.successSelector) THEN "waitSuccessSelector"
    ELSE "waitTimeout"

\* which of the three waits waitForLoginSuccess issues (lines 82, 87, 104)
waitForLoginSuccess(s) ==
    IF Truthy(s.successSelector) THEN "waitSuccessSelector"
    ELSE IF Truthy(s.successUrlPattern) THEN "waitURL"
    ELSE "waitTimeout"

---------------------------------------------------------------------------
(* auth.ts: authenticate *)

\* continueBtn without the continueSelector
continueBtnSubmitOnly(s) == s.submitSelector

\* const continueBtn = sel.continueSelector || sel.submitSelector
continueBtn(s) == Or(s.continueSelector, s.submitSelector)

\* AfterFillEmail taking the continuation stage whatever multiStep is
AfterFillEmailAlways(s) == "clickContinue"

\* if (sel.multiStep) { ... }: where the flow goes once the email is filled
AfterFillEmail(s) == IF Truthy(s.multiStep) THEN "clickContinue" ELSE "fillPassword"

\* The statement that runs once the await at position p has resolved
Continuation(p, s) ==
    CASE p = "goto"          -> "waitEmail"
      [] p = "waitEmail"     -> "fillEmail"
      [] p = "fillEmail"     -> AfterFillEmail(s)
      [] p = "clickContinue" -> "waitPassword"
      [] p = "waitPassword"  -> "fillPassword"
      [] p = "fillPassword"  -> "clickSubmit"
      [] p = "clickSubmit"   -> waitForLoginSuccess(s)
      [] p \in {"waitSuccessSelector", "waitURL", "waitTimeout"} -> "Authenticated"
      [] p = "launch"        -> "newContext"
      [] p = "newContext"    -> "newPage"
      [] p = "newPage"       -> "ifAuth"
      [] p = "gotoTarget"    -> "ifWaitFor"
      [] p = "waitFor"       -> "delay"
      [] p = "delay"         -> "screenshot"
      [] p = "screenshot"    -> "url"
      [] p = "close"         -> "write"
      [] p = "catch"         -> "Rejected"

\* A driver call as issued: operation, arguments and options, not yet settled
Call(op, target, value, waitUntil, timeout, state) ==
    [ op |-> op, target |-> target, value |-> value, waitUntil |-> waitUntil,
      timeout |-> timeout, state |-> state, status |-> "pending", error |-> Undefined ]

\* Await with the await left out: the call is issued and the function runs on
AwaitLeftOut(call) ==
    /\ awaiting = 0
    /\ calls' = Append(calls, call)
    /\ pc' = Continuation(pc, sel)
    /\ UNCHANGED <<auth, sel, awaiting, page, error, predicateEvals, cli, shared, request>>

\* await page.<call>: issue the call and suspend until it settles
Await(call) ==
    /\ awaiting = 0
    /\ calls' = Append(calls, call)
    /\ awaiting' = Len(calls) + 1
    /\ UNCHANGED <<auth, sel, pc, page, error, predicateEvals, cli, shared, request>>

\* line 42
Resolve ==
    /\ pc = "resolve"
    /\ sel' = resolveSelectors(auth)
    /\ pc' = "goto"
    /\ UNCHANGED <<auth, awaiting, calls, page, error, predicateEvals, cli, shared, request>>

\* lines 45-48
GotoLogin ==
    /\ pc = "goto"
    /\ Await(Call("goto", auth.loginUrl, Undefined, "networkidle", 30000, ""))

\* line 51
WaitEmail ==
    /\ pc = "waitEmail"
    /\ Await(Call("waitForSelector", sel.emailSelector, Undefined, "", 10000, ""))

\* line 54
FillEmail ==
    /\ pc = "fillEmail"
    /\ Await(Call("fill", sel.emailSelector, auth.email, "", 0, ""))

\* lines 58-59
ClickContinue ==
    /\ pc = "clickContinue"
    /\ Await(Call("click", continueBtn(sel), Undefined, "", 0, ""))

\* WaitPassword waiting for presence in the DOM, not for visibility
WaitPasswordAttached ==
    /\ pc = "waitPassword"
    /\ Await(Call("waitForSelector", sel.passwordSelector, Undefined, "", 10000, "attached"))

\* lines 60-63
WaitPassword ==
    /\ pc = "waitPassword"
    /\ Await(Call("waitForSelector", sel.passwordSelector, Undefined, "", 10000, "visible"))

\* line 67
FillPassword ==
    /\ pc = "fillPassword"
    /\ Await(Call("fill", sel.passwordSelector, auth.password, "", 0, ""))

\* line 70
ClickSubmit ==
    /\ pc = "clickSubmit"
    /\ Await(Call("click", sel.submitSelector, Undefined, "", 0, ""))

\* line 83
WaitSuccessSelector ==
    /\ pc = "waitSuccessSelector"
    /\ Await(Call("waitForSelector", sel.successSelector, Undefined, "", 15000, ""))

\* lines 88-99
WaitURL ==
    /\ pc = "waitURL"
    /\ Await(Call("waitForURL", sel.successUrlPattern, Undefined, "", 15000, ""))

\* WaitTimeout waiting for the detector's 15-second budget
WaitTimeoutBudget ==
    /\ pc = "waitTimeout"
    /\ Await(Call("waitForTimeout", Undefined, Undefined, "", 15000, ""))

\* line 104
WaitTimeout ==
    /\ pc = "waitTimeout"
    /\ Await(Call("waitForTimeout", Undefined, Undefined, "", 5000, ""))

---------------------------------------------------------------------------
(* The page-automation driver (Playwright's Page) and the page it drives *)

PwdStates == {"absent", "hidden", "visible"}

RedirectTargets == {"https://app.test/dashboard", "https://app.test/org/home"}

\* The pages a login at a.loginUrl can show: the login page with its password
\* field absent, hidden or visible, and the pages it redirects to
Pages(a) ==
    {[url |-> a.loginUrl.v, pwd |-> p] : p \in PwdStates}
        \cup {[url |-> u, pwd |-> "absent"] : u \in RedirectTargets}

TimeoutError == Obj([name |-> Str("TimeoutError")])

OtherError == Obj([name |-> Str("Error")])

Pending == {i \in 1..Len(calls) : calls[i].status = "pending"}

\* the calls screenshot makes on chromium, the browser and the context, and the
\* capture of the page
BrowserOps == {"launch", "newContext", "newPage", "screenshot", "close"}

\* waitForSelector waits for state 'visible' unless another state is passed
RequiredState(c) == IF c.state = "" THEN "visible" ELSE c.state

\* the page's password field is the element sel.passwordSelector matches
OnPasswordField(c) ==
    /\ c.op = "waitForSelector"
    /\ sel # Undefined
    /\ c.target = sel.passwordSelector

PasswordFieldIs(state) ==
    IF state = "visible" THEN page.pwd = "visible" ELSE page.pwd \in {"hidden", "visible"}

\* Whether the driver can report completion of call c on the current page
CanResolve(c) ==
    CASE c.op = "goto"            -> TRUE
      [] c.op = "waitForSelector" ->
            /\ c.target.t = "string"
            /\ OnPasswordField(c) => PasswordFieldIs(RequiredState(c))
      [] c.op \in {"fill", "click"} -> c.target.t = "string"
      [] c.op = "waitForURL"      -> UrlPredicate(sel, page.url)
      [] c.op = "waitForTimeout"  -> TRUE
      [] c.op \in BrowserOps      -> TRUE

\* The errors the driver can fail call c with on the current page
Rejections(c) ==
    CASE c.op = "goto"            -> {TimeoutError, OtherError}
      [] c.op = "waitForSelector" ->
            IF c.target.t # "string" THEN {OtherError}
            ELSE IF OnPasswordField(c) /\ PasswordFieldIs(RequiredState(c)) THEN {}
            ELSE {TimeoutError}
      [] c.op \in {"fill", "click"} ->
            IF c.target.t # "string" THEN {OtherError} ELSE {TimeoutError, OtherError}
      [] c.op = "waitForURL"      ->
            IF UrlPredicate(sel, page.url) THEN {} ELSE {TimeoutError}
      [] c.op = "waitForTimeout"  -> {}
      [] c.op = "screenshot"      -> {TimeoutError, OtherError}
      [] c.op \in BrowserOps \ {"screenshot"} -> {OtherError}

\* The awaited promise fulfils: the function resumes after the await
Resume(i) ==
    IF awaiting = i
    THEN /\ awaiting' = 0
         /\ pc' = Continuation(pc, sel)
         /\ error' = error
    ELSE UNCHANGED <<awaiting, pc, error>>

\* the failure kind the design notes name for a failure at position p
KindOfStage(p) ==
    CASE p = "goto" -> "NavigationTimeout"
      [] p \in {"waitEmail", "waitPassword"} -> "ElementNotFound"
      [] p \in {"fillEmail", "clickContinue", "fillPassword", "clickSubmit"} -> "InteractionFailed"
      [] p \in {"waitSuccessSelector", "waitURL", "waitTimeout"} -> "SuccessDetectionTimeout"

\* Throw with the driver's error replaced by an error of the stage's kind
ThrowKinded(i, e) ==
    IF awaiting = i
    THEN /\ awaiting' = 0
         /\ pc' = "Failed"
         /\ error' = Obj([name |-> Str(KindOfStage(pc))])
    ELSE UNCHANGED <<awaiting, pc, error>>

\* Throw with the failed call tried again, giving up after nine calls
ThrowRetry(i, e) ==
    IF awaiting = i
    THEN /\ awaiting' = 0
         /\ pc' = IF Len(calls) < 9 THEN pc ELSE "Failed"
         /\ error' = IF Len(calls) < 9 THEN error ELSE e
    ELSE UNCHANGED <<awaiting, pc, error>>

\* Throw with the error caught and ignored: the function runs on
ThrowSwallowed(i, e) ==
    IF awaiting = i
    THEN /\ awaiting' = 0
         /\ pc' = Continuation(pc, sel)
         /\ error' = error
    ELSE UNCHANGED <<awaiting, pc, error>>

\* the positions of screenshot inside its try block (index.ts lines 144-198)
TryBlock ==
    {"newContext", "newPage", "ifAuth", "gotoTarget", "waitFor", "delay", "screenshot",
     "close", "write"}

\* Where an error thrown at position p lands: the catch of screenshot for its
\* try block; the caller for chromium.launch (before the try) and for the
\* close in the catch; nothing in authenticate or waitForLoginSuccess catches,
\* so authenticate rejects
Handler(p) ==
    IF p \in TryBlock THEN "catch"
    ELSE IF p \in {"launch", "catch"} THEN "Rejected"
    ELSE "Failed"

\* The awaited promise rejects: the await throws and the function leaves for
\* the handler with the same error
Throw(i, e) ==
    IF awaiting = i
    THEN /\ awaiting' = 0
         /\ pc' = Handler(pc)
         /\ error' = e
    ELSE UNCHANGED <<awaiting, pc, error>>

DriverResolves ==
    \E i \in Pending :
        LET c == calls[i] IN
        /\ CanResolve(c)
        /\ calls' = [calls EXCEPT ![i].status = "resolved"]
        /\ IF c.op = "goto"
           THEN \E p \in PwdStates : page' = [url |-> c.target.v, pwd |-> p]
           ELSE page' = page
        /\ predicateEvals' = IF c.op = "waitForURL" THEN predicateEvals + 1 ELSE predicateEvals
        /\ browser' = CASE c.op = "launch" -> "open"
                         [] c.op = "close"  -> "closed"
                         [] OTHER           -> browser
        /\ buffer' = IF c.op = "screenshot" THEN Str(page.url) ELSE buffer
        /\ Resume(i)
        /\ UNCHANGED <<auth, sel, cli, shared, options, authenticated, invocations, finalUrl, files, result>>

DriverRejects ==
    \E i \in Pending :
        \E e \in Rejections(calls[i]) :
            /\ calls' = [calls EXCEPT ![i].status = "rejected", ![i].error = e]
            /\ predicateEvals' =
                   IF calls[i].op = "waitForURL" THEN predicateEvals + 1 ELSE predicateEvals
            /\ Throw(i, e)
            /\ UNCHANGED <<auth, sel, page, cli, shared, request>>

\* While a call is pending the loaded page may change under it: the password
\* field appears, is revealed or hidden, or the page redirects
PageChanges ==
    /\ Pending # {}
    /\ page.url # "about:blank"
    /\ auth # Undefined
    /\ \E p \in Pages(auth) : p # page /\ page' = p
    /\ UNCHANGED <<auth, sel, pc, awaiting, calls, error, predicateEvals, cli, shared, request>>

---------------------------------------------------------------------------
(* screenshot (index.ts) *)

\* const width = options.width || 1280
width(o) == Or(o.width, Num(1280))

\* const height = options.height || 720
height(o) == Or(o.height, Num(720))

\* const timeout = options.timeout || 30000
timeout(o) == Or(o.timeout, Num(30000))

\* const delay = options.delay ?? (authenticated ? 2000 : 0)
delay(o, authd) == Nullish(o.delay, IF authd THEN Num(2000) ELSE Num(0))

\* a statement of screenshot that awaits nothing: only the position moves
Goto(p) ==
    /\ awaiting = 0
    /\ pc' = p
    /\ UNCHANGED <<auth, sel, awaiting, calls, page, error, predicateEvals, cli, shared>>

\* lines 142-145
Launch ==
    /\ pc = "launch"
    /\ Await(Call("launch", Undefined, Undefined, "", 0, ""))

\* lines 148-150
NewContext ==
    /\ pc = "newContext"
    /\ Await(Call("newContext", Undefined, Obj([width |-> width(options), height |-> height(options)]), "", 0, ""))

\* line 151
NewPage ==
    /\ pc = "newPage"
    /\ Await(Call("newPage", Undefined, Undefined, "", 0, ""))

\* lines 154-156: let authenticated = false; if (options.auth) await
\* authenticate(page, options.auth) (an AuthConfig object is truthy)
IfAuth ==
    /\ pc = "ifAuth"
    /\ awaiting = 0
    /\ authenticated' = FALSE
    /\ IF options.auth # Undefined
       THEN /\ auth' = options.auth
            /\ sel' = Undefined
            /\ pc' = "resolve"
            /\ invocations' = invocations + 1
       ELSE /\ pc' = "gotoTarget"
            /\ UNCHANGED <<auth, sel, invocations>>
    /\ UNCHANGED <<awaiting, calls, page, error, predicateEvals, cli, shared, options, browser, buffer, finalUrl, files, result>>

\* lines 156-157: authenticate has returned; authenticated = true
AuthReturns ==
    /\ options # Undefined
    /\ pc = "Authenticated"
    /\ authenticated' = TRUE
    /\ pc' = "gotoTarget"
    /\ UNCHANGED <<auth, sel, awaiting, calls, page, error, predicateEvals, cli, shared, options, invocations, browser, buffer, finalUrl, files, result>>

\* AuthThrows with the error caught and dropped: the request goes on
AuthThrowsSwallowed ==
    /\ options # Undefined
    /\ pc = "Failed"
    /\ pc' = "gotoTarget"
    /\ UNCHANGED <<auth, sel, awaiting, calls, page, error, predicateEvals, cli, shared, request>>

\* line 156: authenticate has rejected; the await throws inside the try block
AuthThrows ==
    /\ options # Undefined
    /\ pc = "Failed"
    /\ pc' = Handler("ifAuth")
    /\ UNCHANGED <<auth, sel, awaiting, calls, page, error, predicateEvals, cli, shared, request>>

\* lines 161-164
GotoTarget ==
    /\ pc = "gotoTarget"
    /\ Await(Call("goto", options.url, Undefined, "networkidle", timeout(options).v, ""))

\* line 167
IfWaitFor ==
    /\ pc = "ifWaitFor"
    /\ Goto(IF Truthy(options.waitFor) THEN "waitFor" ELSE "delay")
    /\ UNCHANGED request

\* line 168
WaitFor ==
    /\ pc = "waitFor"
    /\ Await(Call("waitForSelector", options.waitFor, Undefined, "", 10000, ""))

\* lines 172-175: if (delay > 0) await page.waitForTimeout(delay)
Delay ==
    /\ pc = "delay"
    /\ LET d == delay(options, authenticated) IN
       IF ~d.nan /\ d.v > 0
       THEN Await(Call("waitForTimeout", Undefined, Undefined, "", d.v, ""))
       ELSE Goto("screenshot") /\ UNCHANGED request

\* lines 178-181
Screenshot ==
    /\ pc = "screenshot"
    /\ Await(Call("screenshot", Undefined, Or(options.fullPage, Bool(FALSE)), "", 0, ""))

\* line 183
ReadUrl ==
    /\ pc = "url"
    /\ Goto("close")
    /\ finalUrl' = Str(page.url)
    /\ UNCHANGED <<options, authenticated, invocations, browser, buffer, files, result>>

\* line 185
Close ==
    /\ pc = "close"
    /\ Await(Call("close", Undefined, Undefined, "", 0, ""))

\* lines 188-190: if (options.output) writeFileSync(options.output, buffer)
Write ==
    /\ pc = "write"
    /\ Goto("return")
    /\ files' = IF Truthy(options.output) THEN files \cup {<<options.output, buffer>>} ELSE files
    /\ UNCHANGED <<options, authenticated, invocations, browser, buffer, finalUrl, result>>

\* line 189: writeFileSync throws (the path cannot be written), inside the try
WriteThrows ==
    /\ pc = "write"
    /\ awaiting = 0
    /\ Truthy(options.output)
    /\ pc' = Handler("write")
    /\ error' = Obj([name |-> Str("Error")])
    /\ UNCHANGED <<auth, sel, awaiting, calls, page, predicateEvals, cli, shared, request>>

\* lines 192-198
Return ==
    /\ pc = "return"
    /\ Goto("Returned")
    /\ result' = [ buffer |-> buffer, path |-> options.output,
                   authenticated |-> authenticated, finalUrl |-> finalUrl,
                   dimensions |-> [width |-> width(options), height |-> height(options)] ]
    /\ UNCHANGED <<options, authenticated, invocations, browser, buffer, finalUrl, files>>

\* lines 199-201: catch (err) { await browser.close(); throw err; }
Catch ==
    /\ pc = "catch"
    /\ Await(Call("close", Undefined, Undefined, "", 0, ""))

---------------------------------------------------------------------------
(* The command line (cli.ts): parseArgs and main *)

\* the arguments that start with '-'
Flags ==
    {"--help", "-h", "-o", "--full-page", "--multi-step", "--config", "--login-url",
     "--email", "--password", "--delay", "--preset", "-secret"}

\* arg.startsWith('-')
StartsWithDash(arg) == arg \in Flags

\* arg.replace(/^-+/, '').replace(/-([a-z])/g, (_, c) => c.toUpperCase())
Key(arg) ==
    CASE arg = "--config"     -> "config"
      [] arg = "--login-url"  -> "loginUrl"
      [] arg = "--email"      -> "email"
      [] arg = "--password"   -> "password"
      [] arg = "--delay"      -> "delay"
      [] arg = "--preset"     -> "preset"
      [] arg = "-o"           -> "o"
      [] arg = "-secret"      -> "secret"

\* parseInt(x, 10): the leading decimal digits of String(x), NaN if there are none
parseInt(x) ==
    IF x.t # "string" THEN NaN
    ELSE CASE x.v = "0"     -> Num(0)
           [] x.v = "500"   -> Num(500)
           [] x.v = "2000"  -> Num(2000)
           [] x.v = "500ms" -> Num(500)
           [] OTHER         -> NaN

\* args[key] = value
Set(args, key, value) == (key :> value) @@ args

\* argv[i] (undefined past the end)
At(a, i) == IF i \in 1..Len(a) THEN Str(a[i]) ELSE Undefined

\* the for loop of parseArgs (lines 237-259) from index i on
RECURSIVE parseLoop(_, _, _, _)
parseLoop(a, i, args, positional) ==
    IF i > Len(a) THEN [args |-> args, positional |-> positional]
    ELSE
        LET arg  == a[i]
            next == At(a, i + 1)
        IN
        IF arg \in {"--help", "-h"}
            THEN parseLoop(a, i + 1, Set(args, "help", Bool(TRUE)), positional)
        ELSE IF arg = "-o" /\ Truthy(next)
            THEN parseLoop(a, i + 2, Set(args, "output", next), positional)
        ELSE IF arg = "--full-page"
            THEN parseLoop(a, i + 1, Set(args, "fullPage", Bool(TRUE)), positional)
        ELSE IF arg = "--multi-step"
            THEN parseLoop(a, i + 1, Set(args, "multiStep", Bool(TRUE)), positional)
        ELSE IF StartsWithDash(arg)
            THEN IF Truthy(next) /\ ~StartsWithDash(next.v)
                 THEN parseLoop(a, i + 2, Set(args, Key(arg), next), positional)
                 ELSE parseLoop(a, i + 1, Set(args, Key(arg), Bool(TRUE)), positional)
        ELSE parseLoop(a, i + 1, args, Append(positional, arg))

\* if (args.k) args.k = parseInt(args.k, 10)  (lines 267-270)
Numeric(args, k) ==
    IF k \in DOMAIN args /\ Truthy(args[k]) THEN Set(args, k, parseInt(args[k])) ELSE args

\* parseArgs(argv) (lines 211-273)
parseArgs(a) ==
    LET parsed == parseLoop(a, 1, <<>>, <<>>)
        named  == IF Len(parsed.positional) > 0
                  THEN Set(parsed.args, "url", Str(parsed.positional[1]))
                  ELSE parsed.args
    IN Obj(Numeric(Numeric(Numeric(Numeric(named, "width"), "height"), "timeout"), "delay"))

\* Credential with the environment first, as the comment of line 369 has it
CredentialEnvFirst(key, envKey, args, cfg, e) ==
    Or(Or(Or(Get(e, envKey), Get(args, key)), Get(cfg, key)), Get(Get(cfg, "auth"), key))

\* args.k || config.k || config.auth?.k || process.env.K  (lines 376-378)
Credential(key, envKey, args, cfg, e) ==
    Or(Or(Or(Get(args, key), Get(cfg, key)), Get(Get(cfg, "auth"), key)), Get(e, envKey))

\* args.k || config.k || config.auth?.k  (lines 390-398)
Setting(key, args, cfg) ==
    Or(Or(Get(args, key), Get(cfg, key)), Get(Get(cfg, "auth"), key))

\* args.k || config.k  (lines 370, 405-411)
OptionOf(key, args, cfg) == Or(Get(args, key), Get(cfg, key))

\* let config = {}; if (args.config) config = JSON.parse(readFileSync(...))
\* (lines 359-367; Undefined: the read or the parse threw)
loadConfig(args, file) ==
    IF ~Truthy(Get(args, "config")) THEN Obj(<<>>)
    ELSE IF Get(args, "config").t = "string" THEN file
    ELSE Undefined

\* the auth of main (lines 381-400), given that loginUrl is truthy
buildAuth(args, cfg, e) ==
    [ loginUrl          |-> Credential("loginUrl", "AUTH_LOGIN_URL", args, cfg, e),
      email             |-> Credential("email", "AUTH_EMAIL", args, cfg, e),
      password          |-> Credential("password", "AUTH_PASSWORD", args, cfg, e),
      preset            |-> Setting("preset", args, cfg),
      emailSelector     |-> Setting("emailSelector", args, cfg),
      passwordSelector  |-> Setting("passwordSelector", args, cfg),
      submitSelector    |-> Setting("submitSelector", args, cfg),
      successUrlPattern |-> Setting("successUrlPattern", args, cfg),
      successSelector   |-> Setting("successSelector", args, cfg),
      multiStep         |-> Setting("multiStep", args, cfg),
      continueSelector  |-> Setting("continueSelector", args, cfg) ]

\* the options of main (lines 402-412)
buildOptions(args, cfg, e) ==
    [ url      |-> OptionOf("url", args, cfg),
      auth     |-> IF Truthy(Credential("loginUrl", "AUTH_LOGIN_URL", args, cfg, e))
                   THEN buildAuth(args, cfg, e) ELSE Undefined,
      width    |-> OptionOf("width", args, cfg),
      height   |-> OptionOf("height", args, cfg),
      fullPage |-> OptionOf("fullPage", args, cfg),
      waitFor  |-> OptionOf("waitFor", args, cfg),
      output   |-> OptionOf("output", args, cfg),
      timeout  |-> OptionOf("timeout", args, cfg),
      delay    |-> OptionOf("delay", args, cfg) ]

\* Whether main leaves through process.exit before it calls screenshot: help or
\* no url and no config (353-356), unreadable config (364-366), no url (371-374),
\* a login URL without email or password (383-386)
Exits(args, cfg, e) ==
    \/ Truthy(Get(args, "help"))
    \/ ~Truthy(Get(args, "url")) /\ ~Truthy(Get(args, "config"))
    \/ cfg = Undefined
    \/ ~Truthy(OptionOf("url", args, cfg))
    \/ /\ Truthy(Credential("loginUrl", "AUTH_LOGIN_URL", args, cfg, e))
       /\ \/ ~Truthy(Credential("email", "AUTH_EMAIL", args, cfg, e))
          \/ ~Truthy(Credential("password", "AUTH_PASSWORD", args, cfg, e))

\* main up to the call of screenshot (lines 350-420)
Main ==
    /\ pc = "main"
    /\ awaiting = 0
    /\ LET args == parseArgs(argv)
           cfg  == loadConfig(args, config)
       IN IF Exits(args, cfg, env)
          THEN pc' = "Exit" /\ options' = options
          ELSE pc' = "launch" /\ options' = buildOptions(args, cfg, env)
    /\ UNCHANGED <<auth, sel, awaiting, calls, page, error, predicateEvals, cli, shared>>
    /\ UNCHANGED <<authenticated, invocations, browser, buffer, finalUrl, files, result>>

\* lines 420-431: screenshot has returned to main, which prints the result
MainPrints ==
    /\ env # Undefined
    /\ pc = "Returned"
    /\ pc' = "Done"
    /\ UNCHANGED <<auth, sel, awaiting, calls, page, error, predicateEvals, cli, shared, request>>

\* lines 432-435: screenshot has rejected; main prints the error and exits
MainCatches ==
    /\ env # Undefined
    /\ pc = "Rejected"
    /\ pc' = "Exit"
    /\ UNCHANGED <<auth, sel, awaiting, calls, page, error, predicateEvals, cli, shared, request>>

---------------------------------------------------------------------------
(* The inputs *)

AuthConfig(loginUrl, preset, emailSelector, passwordSelector, submitSelector, successUrlPattern, successSelector, multiStep, continueSelector) ==
    [ loginUrl          |-> loginUrl,
      email             |-> Str("user@example.com"),
      password          |-> Str("secret"),
      preset            |-> preset,
      emailSelector     |-> emailSelector,
      passwordSelector  |-> passwordSelector,
      submitSelector    |-> submitSelector,
      successUrlPattern |-> successUrlPattern,
      successSelector   |-> successSelector,
      multiStep         |-> multiStep,
      continueSelector  |-> continueSelector ]

\* an optional string option: not given, given empty, given as s
Optional(s) == {Undefined, Str(""), Str(s)}

TriState == {Undefined, Bool(FALSE), Bool(TRUE)}

RegistryKeys == {"supabase", "clerk", "salesforce", "generic"}

\* preset names: absent, empty, the four keys, and names that are no key
PresetNames ==
    {Undefined, Str("")} \cup {Str(k) : k \in RegistryKeys}
        \cup {Str("okta"), Str("Clerk"), Str("constructor"), Str("toString")}

\* The AuthConfigs resolveSelectors is applied to
ResolveConfigs ==
    { AuthConfig(Str("https://app.test/login"), p, e, w, s, u, o, m, c) :
        p \in PresetNames, e \in Optional("#user"), w \in Optional("#pass"),
        s \in Optional("#go"), u \in Optional("/home"), o \in Optional("#ok"),
        m \in TriState, c \in Optional("#next") }

LoginUrls == {Str("https://app.test/login"), Str("https://app.test/signin")}

\* the email and password selector overrides of the runs: none, or both
FieldOverrides == {<<Undefined, Undefined>>, <<Str("#user"), Str("#pass")>>}

\* The AuthConfigs authenticate is run with
FlowConfigs ==
    { AuthConfig(l, p, f[1], f[2], s, u, o, m, c) :
        l \in LoginUrls, f \in FieldOverrides,
        p \in {Undefined, Str("clerk"), Str("salesforce"), Str("constructor")},
        s \in {Undefined, Str("#go")}, u \in {Undefined, Str("/home")},
        o \in Optional("#ok"), m \in TriState, c \in {Undefined, Str("#next")} }

---------------------------------------------------------------------------
(* Specifications *)

\* the module as loaded, and one run only
OneRun ==
    /\ registry = PRESETS
    /\ other = Undefined

\* authenticate called by itself: no command line and no screenshot request
NoRequest ==
    /\ OneRun
    /\ argv = <<>>
    /\ config = Undefined
    /\ env = Undefined
    /\ options = Undefined
    /\ authenticated = FALSE
    /\ invocations = 0
    /\ browser = "none"
    /\ buffer = Undefined
    /\ finalUrl = Undefined
    /\ files = {}
    /\ result = Undefined

InitWith(configs) ==
    /\ auth \in configs
    /\ sel = Undefined
    /\ pc = "resolve"
    /\ awaiting = 0
    /\ calls = <<>>
    /\ page = [url |-> "about:blank", pwd |-> "absent"]
    /\ error = Undefined
    /\ predicateEvals = 0
    /\ NoRequest

Init == InitWith(FlowConfigs)

Next ==
    \/ Resolve
    \/ GotoLogin
    \/ WaitEmail
    \/ FillEmail
    \/ ClickContinue
    \/ WaitPassword
    \/ FillPassword
    \/ ClickSubmit
    \/ WaitSuccessSelector
    \/ WaitURL
    \/ WaitTimeout
    \/ DriverResolves
    \/ DriverRejects
    \/ PageChanges

\* one run of authenticate(page, auth) against the driver
Spec == Init /\ [][Next]_vars

\* the statements of authenticate and waitForLoginSuccess
CodeStep ==
    \/ Resolve
    \/ GotoLogin
    \/ WaitEmail
    \/ FillEmail
    \/ ClickContinue
    \/ WaitPassword
    \/ FillPassword
    \/ ClickSubmit
    \/ WaitSuccessSelector
    \/ WaitURL
    \/ WaitTimeout

\* a pending driver call completes or times out
DriverSettles == DriverResolves \/ DriverRejects

\* The AuthConfigs of the runs checked for termination
LiveConfigs ==
    { AuthConfig(Str("https://app.test/login"), p, f[1], f[2], s, Undefined, o, m, Undefined) :
        p \in {Undefined, Str("clerk"), Str("constructor")}, f \in FieldOverrides,
        s \in {Undefined, Str("#go")}, o \in {Undefined, Str("#ok")},
        m \in {Undefined, Bool(TRUE)} }

InitLive == InitWith(LiveConfigs)

\* A run in which the function runs on whenever it can and every driver call
\* eventually completes or times out
SpecLive == InitLive /\ [][Next]_vars /\ WF_vars(CodeStep) /\ WF_vars(DriverSettles)

InitResolve == InitWith(ResolveConfigs)

\* resolveSelectors applied to every AuthConfig of ResolveConfigs
SpecResolve == InitResolve /\ [][Resolve]_vars

\* The URLs the page is at and the patterns given when the predicate is evaluated
TestUrls ==
    { "https://app.test/", "https://app.test/login", "https://app.test/signin",
      "https://app.test/sign-in", "https://app.test/auth/login",
      "https://app.test/dashboard", "https://app.test/org/home",
      "https://app.test/home-office/dashboard", "https://app.test/?from=/login",
      "https://home.test/dashboard?next=/home" }

TestPatterns == {"/", "/home", "/dashboard", "/org", "/login"}

\* waitForLoginSuccess(page, sel) entered with no successSelector, a pattern of
\* TestPatterns, and the page at a URL of TestUrls
InitUrl ==
    /\ NoRequest
    /\ auth \in { AuthConfig(Str("https://app.test/login"), Undefined, Undefined, Undefined, Undefined, Str(p), Undefined, Undefined, Undefined) : p \in TestPatterns }
    /\ sel = resolveSelectors(auth)
    /\ pc = "waitURL"
    /\ awaiting = 0
    /\ calls = <<>>
    /\ page \in {[url |-> u, pwd |-> "absent"] : u \in TestUrls}
    /\ error = Undefined
    /\ predicateEvals = 0

NextUrl ==
    \/ WaitURL
    \/ DriverResolves
    \/ DriverRejects

\* the URL strategy of waitForLoginSuccess on a page that stays at its URL
SpecUrl == InitUrl /\ [][NextUrl]_vars

\* the three credentials: the property of args and config, the flag, the
\* environment variable
Credentials == {"loginUrl", "email", "password"}

FlagOf(k) ==
    CASE k = "loginUrl" -> "--login-url"
      [] k = "email"    -> "--email"
      [] k = "password" -> "--password"

EnvOf(k) ==
    CASE k = "loginUrl" -> "AUTH_LOGIN_URL"
      [] k = "email"    -> "AUTH_EMAIL"
      [] k = "password" -> "AUTH_PASSWORD"

\* the value a source gives for credential k
ValueOf(source, k) == source \o ":" \o k

\* How one credential is given: on the command line not at all, with a value,
\* with a value that starts with '-', or as a flag without value; in the config
\* file at top level not at all, as "" or with a value; under "auth" in the
\* config file or not; in the environment or not
Givens ==
    [ cli : {"none", "value", "dashed", "bare"}, top : {"none", "empty", "value"},
      nested : BOOLEAN, env : BOOLEAN ]

\* the givens of the credentials that are not under test: on the command line,
\* in the environment only, or nowhere
PlainGivens ==
    { [cli |-> "value", top |-> "none", nested |-> FALSE, env |-> FALSE],
      [cli |-> "none", top |-> "none", nested |-> FALSE, env |-> TRUE],
      [cli |-> "none", top |-> "none", nested |-> FALSE, env |-> FALSE] }

\* the arguments that give credential k on the command line
CliArgs(k, g) ==
    CASE g.cli = "none"   -> <<>>
      [] g.cli = "value"  -> <<FlagOf(k), ValueOf("cli", k)>>
      [] g.cli = "dashed" -> <<FlagOf(k), "-secret">>
      [] g.cli = "bare"   -> <<FlagOf(k)>>

TopOf(k, g) ==
    CASE g.top = "none"  -> Undefined
      [] g.top = "empty" -> Str("")
      [] g.top = "value" -> Str(ValueOf("file", k))

NestedOf(k, g) == IF g.nested THEN Str(ValueOf("nested", k)) ELSE Undefined

InFile(g) == g.top # "none" \/ g.nested

\* the command line, config file and environment that give the three
\* credentials as gs says (gs: credential -> given)
ArgvOf(gs) ==
    <<"https://app.test/target">> \o CliArgs("loginUrl", gs["loginUrl"])
        \o CliArgs("email", gs["email"]) \o CliArgs("password", gs["password"])
        \o (IF \E k \in Credentials : InFile(gs[k]) THEN <<"--config", "cfg.json">> ELSE <<>>)

FileOf(gs) ==
    Obj([ loginUrl |-> TopOf("loginUrl", gs["loginUrl"]),
          email    |-> TopOf("email", gs["email"]),
          password |-> TopOf("password", gs["password"]),
          auth     |-> Obj([ loginUrl |-> NestedOf("loginUrl", gs["loginUrl"]),
                             email    |-> NestedOf("email", gs["email"]),
                             password |-> NestedOf("password", gs["password"]) ]) ])

EnvironmentOf(gs) ==
    Obj([ AUTH_LOGIN_URL |-> IF gs["loginUrl"].env THEN Str(ValueOf("env", "loginUrl")) ELSE Undefined,
          AUTH_EMAIL     |-> IF gs["email"].env THEN Str(ValueOf("env", "email")) ELSE Undefined,
          AUTH_PASSWORD  |-> IF gs["password"].env THEN Str(ValueOf("env", "password")) ELSE Undefined ])

\* one credential given in every way, the other two plainly
MainGivens ==
    { gs \in [Credentials -> Givens] :
        \E k \in Credentials : \A j \in Credentials \ {k} : gs[j] \in PlainGivens }

\* no request running yet: main is about to start
Idle ==
    /\ OneRun
    /\ auth = Undefined
    /\ sel = Undefined
    /\ awaiting = 0
    /\ calls = <<>>
    /\ page = [url |-> "about:blank", pwd |-> "absent"]
    /\ error = Undefined
    /\ predicateEvals = 0
    /\ authenticated = FALSE
    /\ invocations = 0
    /\ browser = "none"
    /\ buffer = Undefined
    /\ finalUrl = Undefined
    /\ files = {}
    /\ result = Undefined

\* How multiStep is given: --multi-step or not; in the config file at top
\* level not at all, as false or as true; under "auth" likewise; with it the
\* preset: none or clerk
MultiStepGivens ==
    [ flag : BOOLEAN, top : TriState, nested : TriState, preset : {Undefined, Str("clerk")} ]

\* the command line that gives the credentials and multiStep as g says
ArgvOfMultiStep(g) ==
    <<"https://app.test/target", "--login-url", "https://app.test/login", "--email", "cli:email", "--password", "cli:password">>
        \o (IF g.preset # Undefined THEN <<"--preset", g.preset.v>> ELSE <<>>)
        \o (IF g.flag THEN <<"--multi-step">> ELSE <<>>)
        \o (IF g.top # Undefined \/ g.nested # Undefined THEN <<"--config", "cfg.json">> ELSE <<>>)

FileOfMultiStep(g) ==
    Obj([ multiStep |-> g.top, auth |-> Obj([multiStep |-> g.nested]) ])

InitMain ==
    /\ \/ \E gs \in MainGivens :
             /\ argv = ArgvOf(gs)
             /\ config = FileOf(gs)
             /\ env = EnvironmentOf(gs)
       \/ \E g \in MultiStepGivens :
             /\ argv = ArgvOfMultiStep(g)
             /\ config = FileOfMultiStep(g)
             /\ env = Obj([AUTH_LOGIN_URL |-> Undefined, AUTH_EMAIL |-> Undefined, AUTH_PASSWORD |-> Undefined])
    /\ options = Undefined
    /\ pc = "main"
    /\ Idle

\* main from the command line up to the call of screenshot
SpecMain == InitMain /\ [][Main]_vars

ScreenshotOptions(url, a, waitFor, output, d) ==
    [ url      |-> url,
      auth     |-> a,
      width    |-> Undefined,
      height   |-> Undefined,
      fullPage |-> Undefined,
      waitFor  |-> waitFor,
      output   |-> output,
      timeout  |-> Undefined,
      delay    |-> d ]

\* The auth of the requests: none; the generic preset (URL pattern "/"); clerk
\* with a success selector (multi-step); an unregistered preset with its own
\* selectors (fixed wait)
ShotAuths ==
    { Undefined,
      AuthConfig(Str("https://app.test/login"), Undefined, Undefined, Undefined, Undefined, Undefined, Undefined, Undefined, Undefined),
      AuthConfig(Str("https://app.test/login"), Str("clerk"), Undefined, Undefined, Undefined, Undefined, Str("#ok"), Undefined, Undefined),
      AuthConfig(Str("https://app.test/login"), Str("constructor"), Str("#user"), Str("#pass"), Str("#go"), Undefined, Undefined, Undefined, Undefined) }

\* the delays a request is given: none, 0, 500 ms
Delays == {Undefined, Num(0), Num(500)}

\* the requests made through screenshot(options)
LibraryOptions ==
    { ScreenshotOptions(Str("https://app.test/target"), a, w, o, d) :
        a \in ShotAuths, w \in {Undefined, Str("#app")},
        o \in {Undefined, Str("out.png")}, d \in Delays }

\* screenshot(options) called by a program
InitLibrary ==
    /\ argv = <<>>
    /\ config = Undefined
    /\ env = Undefined
    /\ options \in LibraryOptions
    /\ pc = "launch"
    /\ Idle

\* the command lines of the requests: the target, a login or none, --delay with
\* 0, with 500, without value or not given, -o or not, --config or not
ShotArgvs ==
    { <<"https://app.test/target">> \o l \o d \o o \o c :
        l \in {<<>>, <<"--login-url", "https://app.test/login", "--email", "cli:email", "--password", "cli:password">>},
        d \in {<<>>, <<"--delay", "0">>, <<"--delay", "500">>, <<"--delay">>},
        o \in {<<>>, <<"-o", "out.png">>},
        c \in {<<>>, <<"--config", "cfg.json">>} }

\* the config files: no delay, "delay": 0, "delay": 2000, unreadable
ShotFiles ==
    {Obj([delay |-> Undefined]), Obj([delay |-> Num(0)]), Obj([delay |-> Num(2000)]), Undefined}

\* the tool started from the command line
InitCli ==
    /\ argv \in ShotArgvs
    /\ config \in ShotFiles
    /\ env = Obj([AUTH_EMAIL |-> Undefined])
    /\ options = Undefined
    /\ pc = "main"
    /\ Idle

InitShot == InitLibrary \/ InitCli

NextShot ==
    \/ Main
    \/ Launch
    \/ NewContext
    \/ NewPage
    \/ IfAuth
    \/ CodeStep
    \/ AuthReturns
    \/ AuthThrows
    \/ GotoTarget
    \/ IfWaitFor
    \/ WaitFor
    \/ Delay
    \/ Screenshot
    \/ ReadUrl
    \/ Close
    \/ Write
    \/ WriteThrows
    \/ Return
    \/ Catch
    \/ MainPrints
    \/ MainCatches
    \/ DriverResolves
    \/ DriverRejects
    \/ PageChanges

\* one screenshot request, made through screenshot(options) or from the command
\* line, against the driver
SpecShot == InitShot /\ [][NextShot]_vars

\* The locals of the run that is being executed: the parameters page and auth,
\* const sel, the position, the awaited call; with them the calls the run has
\* issued on its page
Frame(id) ==
    [ id |-> id, auth |-> auth, sel |-> sel, pc |-> pc, awaiting |-> awaiting,
      calls |-> calls, page |-> page, error |-> error,
      predicateEvals |-> predicateEvals ]

\* the run being executed (the runs are numbered 1 and 2)
Running == 3 - other.id

\* Switch with sel kept in one place for both runs, as a variable of the module
\* would be
SwitchSharedSel ==
    /\ other # Undefined
    /\ awaiting # 0 \/ pc \in {"resolve", "Authenticated", "Failed"}
    /\ other' = Frame(Running)
    /\ auth' = other.auth
    /\ sel' = sel
    /\ pc' = other.pc
    /\ awaiting' = other.awaiting
    /\ calls' = other.calls
    /\ page' = other.page
    /\ error' = other.error
    /\ predicateEvals' = other.predicateEvals
    /\ UNCHANGED <<registry, cli, request>>

\* The event loop turns from one run to the other: a run gives way where it
\* awaits, before it has started and once it has settled.  Parameters and
\* consts of a call of authenticate (lines 41-45) are that call's own, so the
\* run that resumes finds its locals as it left them.
Switch ==
    /\ other # Undefined
    /\ awaiting # 0 \/ pc \in {"resolve", "Authenticated", "Failed"}
    /\ other' = Frame(Running)
    /\ auth' = other.auth
    /\ sel' = other.sel
    /\ pc' = other.pc
    /\ awaiting' = other.awaiting
    /\ calls' = other.calls
    /\ page' = other.page
    /\ error' = other.error
    /\ predicateEvals' = other.predicateEvals
    /\ UNCHANGED <<registry, cli, request>>

\* The AuthConfigs of the concurrent runs: the generic preset, clerk with a
\* success selector, salesforce with its own email selector, an unregistered
\* preset with its own selectors
PairConfigs ==
    { AuthConfig(Str("https://app.test/login"), Undefined, Undefined, Undefined, Undefined, Undefined, Undefined, Undefined, Undefined),
      AuthConfig(Str("https://app.test/sign-in"), Str("clerk"), Undefined, Undefined, Undefined, Undefined, Str("#ok"), Undefined, Undefined),
      AuthConfig(Str("https://app.test/auth/login"), Str("salesforce"), Str("#user"), Undefined, Undefined, Undefined, Undefined, Undefined, Undefined),
      AuthConfig(Str("https://app.test/signin"), Str("constructor"), Str("#name"), Str("#pass"), Str("#go"), Undefined, Undefined, Undefined, Undefined) }

\* two calls authenticate(page1, auth1) and authenticate(page2, auth2) made one
\* after the other without awaiting the first, each on a page of its own
InitPair ==
    /\ registry = PRESETS
    /\ argv = <<>>
    /\ config = Undefined
    /\ env = Undefined
    /\ options = Undefined
    /\ authenticated = FALSE
    /\ invocations = 0
    /\ browser = "none"
    /\ buffer = Undefined
    /\ finalUrl = Undefined
    /\ files = {}
    /\ result = Undefined
    /\ auth \in PairConfigs
    /\ sel = Undefined
    /\ pc = "resolve"
    /\ awaiting = 0
    /\ calls = <<>>
    /\ page = [url |-> "about:blank", pwd |-> "absent"]
    /\ error = Undefined
    /\ predicateEvals = 0
    /\ \E a \in PairConfigs \ {auth} :
          other = [ id |-> 2, auth |-> a, sel |-> Undefined, pc |-> "resolve",
                    awaiting |-> 0, calls |-> <<>>,
                    page |-> [url |-> "about:blank", pwd |-> "absent"],
                    error |-> Undefined, predicateEvals |-> 0 ]

NextPair ==
    \/ CodeStep
    \/ DriverResolves
    \/ DriverRejects
    \/ PageChanges
    \/ Switch

\* two concurrent runs of authenticate in one process
SpecPair == InitPair /\ [][NextPair]_vars

---------------------------------------------------------------------------
(* Properties of the login flow (Spec) *)

Resolved == pc # "resolve"

\* the resolved multiStep is true
MultiStep == sel.multiStep.t = "boolean" /\ sel.multiStep.v

\* a field holds a non-empty string
IsSet(x) == x.t = "string" /\ x.v # ""

Issued(i) == i <= Len(calls)

Completed(i) == Issued(i) /\ calls[i].status = "resolved"

Is(i, op, target, value) ==
    /\ calls[i].op = op
    /\ calls[i].target = target
    /\ calls[i].value = value

DetectOps == {"waitForSelector", "waitForURL", "waitForTimeout"}

\* index in calls of fill(passwordSelector, password), of click(submitSelector),
\* and of the success-detection call, on the path the resolved multiStep selects
PasswordIdx == IF MultiStep THEN 6 ELSE 4

SubmitIdx == PasswordIdx + 1

DetectIdx == PasswordIdx + 2

\* the call issued i-th is the call the stated order puts i-th
InStatedOrder(i) ==
    CASE i = 1 -> Is(1, "goto", auth.loginUrl, Undefined)
      [] i = 2 -> Is(2, "waitForSelector", sel.emailSelector, Undefined)
      [] i = 3 -> Is(3, "fill", sel.emailSelector, auth.email)
      [] i = 4 /\ MultiStep -> calls[4].op = "click"
      [] i = 5 /\ MultiStep ->
            /\ Is(5, "waitForSelector", sel.passwordSelector, Undefined)
            /\ calls[5].state = "visible"
      [] i = PasswordIdx -> Is(i, "fill", sel.passwordSelector, auth.password)
      [] i = SubmitIdx   -> Is(i, "click", sel.submitSelector, Undefined)
      [] i = DetectIdx   -> calls[i].op \in DetectOps
      [] OTHER -> FALSE

\* C1: the driver calls of a run are issued in the stated order (navigate, wait
\* for the email field, fill the email, for a multi-step login the continuation
\* click and the wait for a visible password field, fill the password, click
\* submit, success detection); a call is issued only once every earlier call has
\* completed; a run that ends Authenticated has issued every call of its path,
\* each exactly once, and all of them have completed.
C1_StrictOrder ==
    Resolved =>
        /\ \A i \in 1..Len(calls) : InStatedOrder(i)
        /\ \A i \in 1..Len(calls) : i < Len(calls) => Completed(i)
        /\ pc = "Authenticated" =>
              /\ Len(calls) = DetectIdx
              /\ \A i \in 1..DetectIdx : Completed(i)

C1_Witness ==
    /\ pc = "Authenticated"
    /\ MultiStep
    /\ Len(calls) = 8
    /\ calls[7].op = "click"
    /\ calls[7].status = "resolved"

\* C2: a driver call that failed is the last call of the run (no call of a later
\* stage and no retry follows it), the run has ended Failed, and the error the
\* caller gets is the error of that call; after a timed-out wait for the email
\* field the run has issued no fill and no click.
C2_FailureAborts ==
    \A i \in 1..Len(calls) :
        calls[i].status = "rejected" =>
            /\ i = Len(calls)
            /\ pc = "Failed"
            /\ awaiting = 0
            /\ error = calls[i].error
            /\ error.t = "object"
            /\ (i = 2 => \A j \in 1..Len(calls) : calls[j].op \notin {"fill", "click"})

C2_Witness ==
    /\ pc = "Failed"
    /\ Len(calls) = 2
    /\ calls[2].op = "waitForSelector"
    /\ calls[2].status = "rejected"
    /\ error = TimeoutError

\* C3: in a multi-step login the password is filled only after the continuation
\* click has completed and the wait for the password field, issued with the
\* visibility requirement, has succeeded; the flow reaches the password fill
\* only with the password field visible, never with it absent or merely in
\* the DOM and hidden.
C3_PasswordAfterVisible ==
    (Resolved /\ MultiStep) =>
        /\ (pc = "fillPassword" /\ awaiting = 0) => page.pwd = "visible"
        /\ \A i \in 1..Len(calls) :
              Is(i, "fill", sel.passwordSelector, auth.password) =>
                  /\ i > 5
                  /\ calls[4].op = "click" /\ Completed(4)
                  /\ Is(5, "waitForSelector", sel.passwordSelector, Undefined)
                  /\ calls[5].state = "visible" /\ Completed(5)

C3_Witness ==
    /\ Resolved /\ MultiStep
    /\ Issued(6)
    /\ Is(6, "fill", sel.passwordSelector, auth.password)
    /\ calls[6].status = "pending"
    /\ page.pwd = "visible"

\* C4: the continuation stage (a click as fourth call, then the wait for a
\* visible password field) is run exactly when the resolved multiStep is true;
\* when it is not, the call after the email fill is the password fill and the
\* only click of the run is the click on the submit selector.
C4_ContinueIffMultiStep ==
    Resolved =>
        /\ Issued(4) => (calls[4].op = "click" <=> MultiStep)
        /\ (MultiStep /\ Issued(5)) =>
              /\ Is(5, "waitForSelector", sel.passwordSelector, Undefined)
              /\ calls[5].state = "visible"
        /\ ~MultiStep =>
              /\ Issued(4) => Is(4, "fill", sel.passwordSelector, auth.password)
              /\ \A i \in 1..Len(calls) :
                    calls[i].op = "click" =>
                        i = 5 /\ calls[i].target = sel.submitSelector
              /\ \A i \in 1..Len(calls) : calls[i].state # "visible"

C4_Witness ==
    /\ pc = "Authenticated"
    /\ auth.preset = Str("clerk")
    /\ ~MultiStep
    /\ Cardinality({i \in 1..Len(calls) : calls[i].op = "click"}) = 1

\* C9: in a multi-step login the continuation click goes to the resolved
\* continueSelector when there is one, and to the resolved submitSelector when
\* none is resolved.
C9_ContinueTarget ==
    (Resolved /\ MultiStep /\ Issued(4)) =>
        /\ calls[4].op = "click"
        /\ calls[4].target =
              IF sel.continueSelector.t = "undefined"
              THEN sel.submitSelector
              ELSE sel.continueSelector

C9_Witness ==
    /\ Resolved /\ MultiStep
    /\ sel.continueSelector = Undefined
    /\ Completed(4)
    /\ calls[4].target = Str("#go")

\* C10: a call of the success detector issues exactly one wait: the selector
\* wait when successSelector is set, whatever successUrlPattern is, and then the
\* URL predicate is never evaluated; the URL wait when successSelector is not
\* set and successUrlPattern is; the fixed wait when neither is set.  (Set: a
\* non-empty string.)
C10_OneStrategy ==
    Resolved =>
        /\ Len(calls) <= DetectIdx
        /\ Issued(DetectIdx) =>
              LET c == calls[DetectIdx] IN
              /\ IsSet(sel.successSelector) =>
                    /\ c.op = "waitForSelector"
                    /\ c.target = sel.successSelector
                    /\ predicateEvals = 0
              /\ (~IsSet(sel.successSelector) /\ IsSet(sel.successUrlPattern)) =>
                    /\ c.op = "waitForURL"
                    /\ c.target = sel.successUrlPattern
              /\ (~IsSet(sel.successSelector) /\ ~IsSet(sel.successUrlPattern)) =>
                    c.op = "waitForTimeout"
        /\ predicateEvals > 0 =>
              /\ Issued(DetectIdx)
              /\ calls[DetectIdx].op = "waitForURL"
              /\ calls[DetectIdx].status # "pending"
        /\ \A i \in 1..Len(calls) :
              calls[i].op \in {"waitForURL", "waitForTimeout"} => i = DetectIdx

C10_Witness ==
    /\ pc = "Authenticated"
    /\ IsSet(sel.successSelector)
    /\ IsSet(auth.successUrlPattern)
    /\ calls[DetectIdx].op = "waitForSelector"
    /\ predicateEvals = 0

\* C12: with neither successSelector nor successUrlPattern set, the success
\* detector issues one call, a fixed wait of 5000 ms, never evaluates the URL
\* predicate, and once the wait is over the run is Authenticated: on no page,
\* whatever its URL or password field, does the run fail or keep waiting.
C12_FallbackSucceeds ==
    (Resolved /\ ~IsSet(sel.successSelector) /\ ~IsSet(sel.successUrlPattern)
        /\ Issued(DetectIdx)) =>
        LET c == calls[DetectIdx] IN
        /\ c.op = "waitForTimeout"
        /\ c.timeout = 5000
        /\ Len(calls) = DetectIdx
        /\ predicateEvals = 0
        /\ pc # "Failed"
        /\ c.status = "pending" => ENABLED DriverResolves
        /\ c.status # "pending" => pc = "Authenticated"

C12_Witness ==
    /\ pc = "Authenticated"
    /\ calls[DetectIdx].op = "waitForTimeout"
    /\ page.url = auth.loginUrl.v
    /\ page.pwd = "visible"

\* C21: the fixed 5-second wait is unreachable from authenticate: for every
\* AuthConfig the resolved successUrlPattern is a non-empty string, the run is
\* never at the fixed wait and never issues page.waitForTimeout.  Violated for
\* a preset name that Object.prototype answers ("constructor"): the lookup
\* yields an object without preset fields, successUrlPattern resolves to
\* undefined, and without a successSelector the run takes the fixed wait.
C21_FallbackUnreachable ==
    Resolved =>
        /\ IsSet(sel.successUrlPattern)
        /\ pc # "waitTimeout"
        /\ \A i \in 1..Len(calls) : calls[i].op # "waitForTimeout"

\* the call a Failed run failed in, and the stage it belongs to
FailedCall == calls[Len(calls)]

FailedStage ==
    CASE Len(calls) = 1 -> "goto"
      [] Len(calls) = 2 -> "waitEmail"
      [] Len(calls) = 3 -> "fillEmail"
      [] Len(calls) = 4 /\ MultiStep -> "clickContinue"
      [] Len(calls) = 5 /\ MultiStep -> "waitPassword"
      [] Len(calls) = PasswordIdx -> "fillPassword"
      [] Len(calls) = SubmitIdx -> "clickSubmit"
      [] Len(calls) = DetectIdx -> "waitURL"

Terminal == {"Authenticated", "Failed"}

\* how far along the flow a position is
Rank(p) ==
    CASE p = "resolve"       -> 0
      [] p = "goto"          -> 1
      [] p = "waitEmail"     -> 2
      [] p = "fillEmail"     -> 3
      [] p = "clickContinue" -> 4
      [] p = "waitPassword"  -> 5
      [] p = "fillPassword"  -> 6
      [] p = "clickSubmit"   -> 7
      [] p \in {"waitSuccessSelector", "waitURL", "waitTimeout"} -> 8
      [] p \in Terminal      -> 9

\* C19: when every driver call eventually completes or times out, a run ends
\* Authenticated or Failed and stays there; it issues at most 8 driver calls;
\* and each change of position moves forward in the flow, so no position is
\* visited twice.
C19_Terminates ==
    /\ <>(pc \in Terminal)
    /\ [](Len(calls) <= 8)
    /\ [][(pc \in Terminal) => vars' = vars]_vars
    /\ [][pc' # pc => Rank(pc') > Rank(pc)]_vars
    /\ [][Len(calls') > Len(calls) => (awaiting = 0 /\ Len(calls') = Len(calls) + 1)]_vars

C19_Witness ==
    /\ pc = "Failed"
    /\ Len(calls) = 8
    /\ calls[8].status = "rejected"

\* the success detection of the run is page.waitForURL with pattern "/"
UrlStrategyRoot ==
    /\ Issued(DetectIdx)
    /\ calls[DetectIdx].op = "waitForURL"
    /\ sel.successUrlPattern = Str("/")

\* C20: a run that detects success by URL with pattern "/" is never
\* Authenticated while the path of the page is still the path of loginUrl, for
\* every loginUrl.  Violated for loginUrl https://app.test/signin: its path has
\* none of "/login", "/sign-in", "/auth/", so the predicate holds on the login
\* page itself and success is reported without any redirect.
C20_LeftLoginPath ==
    (pc = "Authenticated" /\ UrlStrategyRoot) =>
        Pathname(page.url) # Pathname(auth.loginUrl.v)

---------------------------------------------------------------------------
(* Properties of the selector resolver (SpecResolve) *)

\* the fields with a preset default that an AuthConfig string can override
OverridableFields ==
    {"emailSelector", "passwordSelector", "submitSelector", "successUrlPattern",
     "continueSelector"}

\* auth.preset names one of the four registry entries
NamesPreset == auth.preset.t = "string" /\ auth.preset.v \in RegistryKeys

\* the registry entry auth.preset names
NamedPreset == PRESETS[auth.preset.v]

NoOverrides ==
    /\ \A f \in OverridableFields : auth[f] = Undefined
    /\ auth.successSelector = Undefined
    /\ auth.multiStep = Undefined

\* C5: for each of emailSelector, passwordSelector, submitSelector,
\* successUrlPattern and continueSelector, the resolved field is the override
\* whenever the AuthConfig gives one as a non-empty string, whatever the preset;
\* and when the override is absent or empty, it is the default of the registry
\* preset the AuthConfig names (undefined when that preset has none).
C5_OverridePrecedence ==
    Resolved =>
        \A f \in OverridableFields :
            IF IsSet(auth[f])
            THEN sel[f] = auth[f]
            ELSE NamesPreset => sel[f] = Get(NamedPreset, f)

C5_Witness ==
    /\ Resolved
    /\ auth.preset = Str("clerk")
    /\ auth.emailSelector = Str("#user")
    /\ auth.continueSelector = Str("")
    /\ sel.emailSelector = Str("#user")
    /\ sel.continueSelector = Str("button[type=\"submit\"]")

\* C6: resolving an AuthConfig that names one of the four registry presets and
\* gives no override returns that preset's emailSelector, passwordSelector,
\* submitSelector, successUrlPattern, multiStep and continueSelector, and an
\* undefined successSelector.
C6_PresetDefaults ==
    (Resolved /\ NamesPreset /\ NoOverrides) =>
        /\ sel = [ emailSelector     |-> NamedPreset.v.emailSelector,
                   passwordSelector  |-> NamedPreset.v.passwordSelector,
                   submitSelector    |-> NamedPreset.v.submitSelector,
                   successUrlPattern |-> NamedPreset.v.successUrlPattern,
                   successSelector   |-> Undefined,
                   multiStep         |-> NamedPreset.v.multiStep,
                   continueSelector  |-> Get(NamedPreset, "continueSelector") ]
        /\ auth.preset.v = "clerk" =>
              /\ sel.multiStep = Bool(TRUE)
              /\ sel.continueSelector = Str("button[type=\"submit\"]")
              /\ sel.emailSelector = Str("input[name=\"identifier\"], input#identifier-field")
        /\ auth.preset.v = "salesforce" =>
              /\ sel.successUrlPattern = Str("/home")
              /\ sel.submitSelector = Str("input#Login")
              /\ sel.continueSelector = Undefined

C6_Witness ==
    /\ Resolved /\ NoOverrides
    /\ auth.preset = Str("salesforce")
    /\ sel.emailSelector = Str("input#username")
    /\ sel.multiStep = Bool(FALSE)

\* C7: for a preset name that is absent, empty or none of the four registry
\* keys, resolve returns the bundle it returns for preset "generic" with the
\* same overrides.
C7_UnknownIsGeneric ==
    (Resolved /\ ~NamesPreset) =>
        sel = resolveSelectors([auth EXCEPT !.preset = Str("generic")])

\* C8: the resolved multiStep is auth.multiStep whenever that is given, true or
\* false, and the named registry preset's multiStep when it is not given; preset
\* "clerk" with multiStep false resolves to false.
C8_MultiStepByPresence ==
    Resolved =>
        /\ auth.multiStep.t = "boolean" => sel.multiStep = auth.multiStep
        /\ (auth.multiStep.t = "undefined" /\ NamesPreset) =>
              sel.multiStep = NamedPreset.v.multiStep
        /\ (auth.preset = Str("clerk") /\ auth.multiStep = Bool(FALSE)) =>
              sel.multiStep = Bool(FALSE)

C8_Witness ==
    /\ Resolved
    /\ auth.preset = Str("clerk")
    /\ auth.multiStep = Bool(FALSE)
    /\ sel.multiStep = Bool(FALSE)

---------------------------------------------------------------------------
(* Properties of the URL predicate (SpecUrl) *)

\* the path of the page's URL contains the substring
PathHas(sub) == Includes(Pathname(page.url), sub)

\* the predicate's verdict on the page's URL: the URL wait succeeded or timed out
Accepted == pc = "Authenticated"

Rejected == pc = "Failed"

\* C11: with pattern "/" the URL predicate holds iff the path contains none of
\* "/login", "/sign-in", "/auth/"; with any other pattern iff the path contains
\* the pattern; host and query do not count.  "/" accepts /dashboard and
\* rejects /auth/login; "/home" accepts /org/home and rejects /dashboard.
C11_UrlPredicate ==
    LET pattern == sel.successUrlPattern.v
        holds   == IF pattern = "/"
                   THEN ~PathHas("/login") /\ ~PathHas("/sign-in") /\ ~PathHas("/auth/")
                   ELSE PathHas(pattern)
    IN  /\ Accepted => holds
        /\ Rejected => ~holds
        /\ (pattern = "/" /\ page.url = "https://app.test/dashboard") => ~Rejected
        /\ (pattern = "/" /\ page.url = "https://app.test/auth/login") => ~Accepted
        /\ (pattern = "/" /\ page.url = "https://app.test/?from=/login") => ~Rejected
        /\ (pattern = "/home" /\ page.url = "https://app.test/org/home") => ~Rejected
        /\ (pattern = "/home" /\ page.url = "https://app.test/dashboard") => ~Accepted
        /\ (pattern = "/home" /\ page.url = "https://home.test/dashboard?next=/home") => ~Accepted

C11_Witness ==
    /\ Accepted
    /\ sel.successUrlPattern = Str("/home")
    /\ page.url = "https://app.test/org/home"
    /\ predicateEvals = 1

---------------------------------------------------------------------------
(* Properties of the command line (SpecMain) *)

\* position in argv of the flag of credential k (0: not given)
FlagAt(k) ==
    IF \E i \in 1..Len(argv) : argv[i] = FlagOf(k)
    THEN CHOOSE i \in 1..Len(argv) : argv[i] = FlagOf(k)
    ELSE 0

\* what the command line gives for credential k: the argument after the flag,
\* or true for a flag that no value follows
FromCli(k) ==
    LET i == FlagAt(k) IN
    IF i = 0 THEN Undefined
    ELSE IF i < Len(argv) /\ argv[i + 1] \notin Flags THEN Str(argv[i + 1])
    ELSE Bool(TRUE)

\* what the config file gives for credential k: its top-level property, or the
\* one under "auth"; a property that is "" gives nothing
FromFile(k) ==
    IF \A i \in 1..Len(argv) : argv[i] # "--config" THEN Undefined
    ELSE IF IsSet(config.v[k]) THEN config.v[k]
    ELSE IF IsSet(config.v.auth.v[k]) THEN config.v.auth.v[k]
    ELSE Undefined

FromEnv(k) == env.v[EnvOf(k)]

\* CLI flag > config file > environment variable
Picked(k) ==
    IF FromCli(k) # Undefined THEN FromCli(k)
    ELSE IF FromFile(k) # Undefined THEN FromFile(k)
    ELSE FromEnv(k)

MultiStepFlag == \E i \in 1..Len(argv) : argv[i] = "--multi-step"

\* the values the config file gives for multiStep, at top level and under "auth"
MultiStepInFile ==
    IF \A i \in 1..Len(argv) : argv[i] # "--config" THEN {}
    ELSE {Get(config, "multiStep"), Get(Get(config, "auth"), "multiStep")} \ {Undefined}

\* C23: main keeps the tri-state of multiStep in the AuthConfig it builds: true
\* with --multi-step or with an explicit true in the config file, false with
\* an explicit false in the config file (and then preset clerk resolves to a
\* single-step flow), unset only when it is given nowhere.  Violated for
\* {"multiStep": false} at the top level of the config file: the false is
\* dropped by ||, multiStep reaches authenticate unset and clerk stays
\* multi-step.
C23_MultiStepTriState ==
    (pc = "launch" /\ options.auth # Undefined) =>
        LET given == options.auth.multiStep IN
        /\ MultiStepFlag => given = Bool(TRUE)
        /\ (~MultiStepFlag /\ MultiStepInFile = {Bool(TRUE)}) => given = Bool(TRUE)
        /\ (~MultiStepFlag /\ MultiStepInFile = {Bool(FALSE)}) =>
              /\ given = Bool(FALSE)
              /\ resolveSelectors(options.auth).multiStep = Bool(FALSE)
        /\ (~MultiStepFlag /\ MultiStepInFile = {}) => given = Undefined
        /\ given = Undefined => (~MultiStepFlag /\ MultiStepInFile = {})

---------------------------------------------------------------------------
(* Properties of the screenshot request (SpecShot) *)

\* the request was started from the command line
FromCommandLine == env # Undefined

\* position in argv of --delay (0: not given)
DelayAt ==
    IF \E i \in 1..Len(argv) : argv[i] = "--delay"
    THEN CHOOSE i \in 1..Len(argv) : argv[i] = "--delay"
    ELSE 0

\* the delay given on the command line: the number after --delay
CliDelay ==
    IF DelayAt = 0 \/ DelayAt = Len(argv) THEN Undefined
    ELSE CASE argv[DelayAt + 1] = "0"   -> Num(0)
           [] argv[DelayAt + 1] = "500" -> Num(500)
           [] OTHER                     -> Undefined

\* the delay given in the config file
FileDelay ==
    IF \E i \in 1..Len(argv) : argv[i] = "--config" THEN config.v.delay ELSE Undefined

\* the delay explicitly supplied to the request: through options for a call of
\* screenshot(), on the command line or else in the config file for the tool
SuppliedDelay ==
    IF ~FromCommandLine THEN options.delay
    ELSE IF CliDelay # Undefined THEN CliDelay
    ELSE FileDelay

\* the request is past its delay stage and about to capture
AboutToCapture == pc = "screenshot" /\ awaiting = 0

\* the time waited between page load and capture: that of the
\* page.waitForTimeout issued last before the capture, 0 if there was none
Waited ==
    IF calls[Len(calls)].op = "waitForTimeout" THEN calls[Len(calls)].timeout ELSE 0

\* C18: the delay waited between page load and capture is the explicitly
\* supplied delay whenever one is supplied (options of screenshot(), command
\* line, config file; any value >= 0), and otherwise 2000 ms after an
\* authentication and 0 without.  Violated for --delay 0 on the command line:
\* main drops the 0 (args.delay || config.delay), so an authenticated request
\* waits 2000 ms, and a config file's delay is taken in its place.
C18_DelayAsSupplied ==
    AboutToCapture =>
        Waited = IF SuppliedDelay # Undefined THEN SuppliedDelay.v
                 ELSE IF authenticated THEN 2000 ELSE 0

\* call i is the navigation to the target URL (the login URL is another one)
IsTargetGoto(i) == calls[i].op = "goto" /\ calls[i].target = options.url

\* call i is the navigation to the login page
IsLoginGoto(i) ==
    /\ options.auth # Undefined
    /\ calls[i].op = "goto"
    /\ calls[i].target = options.auth.loginUrl

Indices(P(_)) == {i \in 1..Len(calls) : P(i)}

\* C13: within one screenshot request authenticate is invoked at most once:
\* never without an auth config, and exactly once, with that config, before
\* the navigation to the target; the navigation to the target is issued only
\* after authenticate has returned (every call before it has completed, the
\* last of them the success detection, and authenticated is set).
C13_AuthOnceBeforeTarget ==
    options # Undefined =>
        /\ invocations <= 1
        /\ Cardinality(Indices(IsLoginGoto)) <= invocations
        /\ invocations = 1 => auth = options.auth
        /\ options.auth = Undefined =>
              (invocations = 0 /\ auth = Undefined /\ ~authenticated)
        /\ \A i \in Indices(IsTargetGoto) :
              /\ invocations = IF options.auth # Undefined THEN 1 ELSE 0
              /\ \A j \in 1..(i - 1) : calls[j].status = "resolved"
              /\ options.auth # Undefined =>
                    /\ authenticated
                    /\ calls[i - 1].op \in DetectOps
                    /\ Indices(IsLoginGoto) = {4}

C13_Witness ==
    /\ result # Undefined
    /\ result.authenticated
    /\ invocations = 1
    /\ Indices(IsLoginGoto) = {4}
    /\ Indices(IsTargetGoto) # {}

\* a driver call issued by authenticate was rejected: authenticate has failed
AuthenticateFailed ==
    /\ options # Undefined
    /\ \E i \in 4..Len(calls) :
          /\ calls[i].status = "rejected"
          /\ \A j \in 1..i : ~IsTargetGoto(j)

\* the error authenticate failed with
AuthenticateError == calls[CHOOSE i \in 4..Len(calls) : calls[i].status = "rejected"].error

\* C14: a failure of authenticate aborts the request: the target is never
\* navigated to, nothing is captured, no file is written, no result is
\* returned, and the request rejects with that error; a returned result has
\* authenticated = true iff an auth config was supplied (authenticate then
\* completed).  Violated when browser.close() in the catch block rejects: the
\* request then rejects with the error of close and the error of authenticate
\* is lost.
C14_AuthFailureAborts ==
    /\ AuthenticateFailed =>
          /\ Indices(IsTargetGoto) = {}
          /\ \A i \in 1..Len(calls) : calls[i].op # "screenshot"
          /\ buffer = Undefined
          /\ files = {}
          /\ result = Undefined
          /\ pc \in {"Failed", "catch", "Rejected", "Exit"}
          /\ pc = "Rejected" => error = AuthenticateError
    /\ (options # Undefined /\ result # Undefined) =>
          /\ result.authenticated <=> options.auth # Undefined
          /\ result.authenticated => (invocations = 1 /\ ~AuthenticateFailed)

\* call i is a browser.close()
IsClose(i) == calls[i].op = "close"

\* screenshot has launched the browser and has returned or thrown
Settled == browser # "none" /\ pc \in {"Returned", "Rejected", "Done", "Exit"}

\* C22: once the browser is launched, screenshot closes it exactly once,
\* whichever step succeeds or fails, and before it returns or throws: there is
\* never a second browser.close(), and when the call has returned or thrown
\* the browser is closed.  Violated when writeFileSync throws: the browser was
\* closed on line 185, the catch block closes it a second time; and when
\* close itself fails: the catch block calls close again, and if that fails
\* too the call throws with the browser still open.
C22_ClosedExactlyOnce ==
    /\ Cardinality(Indices(IsClose)) <= 1
    /\ Settled =>
          /\ browser = "closed"
          /\ Cardinality(Indices(IsClose)) = 1

---------------------------------------------------------------------------
(* Properties of concurrent runs (SpecPair) *)

\* the two runs: the one being executed and the one that waits
Runs == {Frame(Running), other}

\* call c is one that authenticate makes for AuthConfig a: its target is the
\* login URL of a or a selector or pattern resolved from a, its value the
\* email or password of a
OwnCall(c, a) ==
    LET s == resolveSelectors(a) IN
    CASE c.op = "goto"            -> c.target = a.loginUrl
      [] c.op = "waitForSelector" ->
            c.target \in {s.emailSelector, s.passwordSelector, s.successSelector}
      [] c.op = "fill"            ->
            <<c.target, c.value>> \in
                {<<s.emailSelector, a.email>>, <<s.passwordSelector, a.password>>}
      [] c.op = "click"           -> c.target \in {continueBtn(s), s.submitSelector}
      [] c.op = "waitForURL"      -> c.target = s.successUrlPattern
      [] c.op = "waitForTimeout"  -> c.target = Undefined

\* the frame of run id
RunOf(id) == IF other.id = id THEN other ELSE Frame(id)

\* C16: two concurrent runs of authenticate with different AuthConfigs, each
\* on its own page, share no mutable state: under every interleaving each
\* run's sel is the one resolved from its own AuthConfig and each of its calls
\* uses only its own login URL, selectors and credentials; a step of one run
\* leaves the other run's locals, calls and page as they were; the registry
\* keeps its four entries unchanged; and no AuthConfig is ever modified.
C16_NoSharedState ==
    /\ [](\A r \in Runs :
            /\ r.sel \in {Undefined, resolveSelectors(r.auth)}
            /\ \A i \in 1..Len(r.calls) : OwnCall(r.calls[i], r.auth))
    /\ [](registry = PRESETS /\ DOMAIN registry = RegistryKeys)
    /\ [][other'.id = other.id => other' = other]_vars
    /\ [][\A id \in {1, 2} : RunOf(id)'.auth = RunOf(id).auth]_vars

C16_Witness ==
    /\ other # Undefined
    /\ awaiting # 0
    /\ other.awaiting # 0
    /\ Len(calls) >= 3
    /\ Len(other.calls) >= 3
    /\ sel # other.sel

====
